---- MODULE Spec2Model ----
(***************************************************************************)
(* Model of doc-embedding-api/app.py: the chunker, the frontmatter         *)
(* extractor, the chunk identifier, the ingest / delete handler over the   *)
(* vector index (one request at a time, and two at once), the search and   *)
(* RAG handlers, and the wiki setup flow.  Text is a sequence of           *)
(* one-character strings.                                                  *)
(***************************************************************************)
EXTENDS Integers, Sequences, FiniteSets, TLC

(***************************************************************************)
(* Program constants.                                                      *)
(***************************************************************************)
CHUNK_SIZE == 500
CHUNK_OVERLAP == 50

(***************************************************************************)
(* Bounds of the model.                                                    *)
(***************************************************************************)
MaxTextLen == 7        \* longest enumerated text handed to the chunker
MaxChunkSize == 3      \* chunk_size ranges over 1..MaxChunkSize
MaxOverlap == 3        \* overlap ranges over 0..MaxOverlap
MaxIterations == 6     \* cap on the iterations of a non-terminating window loop

(***************************************************************************)
(* Python string and list primitives.                                      *)
(***************************************************************************)
Whitespace == {" ", "\t", "\n", "\r", "\f"}

IsSpace(c) == c \in Whitespace

Min(a, b) == IF a < b THEN a ELSE b

Max(a, b) == IF a > b THEN a ELSE b

\* Python's seq[from:to] for any integers from, to (0-based, `to` excluded;
\* a negative index counts from the end, out-of-range indices are clamped).
Slice(seq, from, to) ==
  LET n == Len(seq)
      lo == IF from < 0 THEN Max(from + n, 0) ELSE Min(from, n)
      hi == IF to < 0 THEN Max(to + n, 0) ELSE Min(to, n)
  IN IF lo < hi THEN SubSeq(seq, lo + 1, hi) ELSE <<>>

\* str.split() on text[lo..hi]: the maximal runs of non-whitespace characters.
RECURSIVE SplitRange(_, _, _)
SplitRange(s, lo, hi) ==
  IF lo > hi THEN <<>>
  ELSE IF lo = hi THEN (IF IsSpace(s[lo]) THEN <<>> ELSE << <<s[lo]>> >>)
  ELSE LET mid == (lo + hi) \div 2
           left == SplitRange(s, lo, mid)
           right == SplitRange(s, mid + 1, hi)
       IN IF IsSpace(s[mid]) \/ IsSpace(s[mid + 1])
          THEN left \o right
          ELSE SubSeq(left, 1, Len(left) - 1)
               \o << left[Len(left)] \o right[1] >>
               \o SubSeq(right, 2, Len(right))

split(s) == SplitRange(s, 1, Len(s))

\* ' '.join(words[lo..hi])
RECURSIVE JoinRange(_, _, _)
JoinRange(ws, lo, hi) ==
  IF lo > hi THEN <<>>
  ELSE IF lo = hi THEN ws[lo]
  ELSE LET mid == (lo + hi) \div 2
       IN JoinRange(ws, lo, mid) \o <<" ">> \o JoinRange(ws, mid + 1, hi)

join(ws) == JoinRange(ws, 1, Len(ws))

(***************************************************************************)
(* split_into_chunks                                                       *)
(***************************************************************************)
\* end = start + chunk_size
WindowEnd(start_, chunk_size_) == start_ + chunk_size_

\* ' '.join(words[start:end])
WindowChunk(words_, start_, end_) == join(Slice(words_, start_, end_))

\* a window start that skips one word past the overlap
NextStart_skip(end_, overlap_) == end_ - overlap_ + 1

\* start = end - overlap
NextStart(end_, overlap_) == end_ - overlap_

\* a break test that lets a window ending exactly at the last word continue
ReachedEnd_strict(end_, words_) == end_ > Len(words_)

\* if end >= len(words): break
ReachedEnd(end_, words_) == end_ >= Len(words_)

\* the while loop, from the iteration that begins at start_
RECURSIVE ChunkLoop(_, _, _, _, _)
ChunkLoop(words_, chunk_size_, overlap_, start_, chunks_) ==
  IF start_ < Len(words_)
  THEN LET end_ == WindowEnd(start_, chunk_size_)
           appended == Append(chunks_, WindowChunk(words_, start_, end_))
       IN IF ReachedEnd(end_, words_)
          THEN appended
          ELSE ChunkLoop(words_, chunk_size_, overlap_, NextStart(end_, overlap_), appended)
  ELSE chunks_

\* an early return that misses the text of exactly chunk_size words
FitsOneChunk_less(words_, chunk_size_) == Len(words_) < chunk_size_

\* the early return of the function: the whole text is one chunk
FitsOneChunk(words_, chunk_size_) == Len(words_) <= chunk_size_

split_into_chunks(text_, chunk_size_, overlap_) ==
  LET words_ == split(text_)
  IN IF FitsOneChunk(words_, chunk_size_)
     THEN <<text_>>
     ELSE ChunkLoop(words_, chunk_size_, overlap_, 0, <<>>)

(***************************************************************************)
(* More string primitives.                                                 *)
(***************************************************************************)
\* s.startswith(prefix)
StartsWith(s, prefix) ==
  Len(s) >= Len(prefix) /\ SubSeq(s, 1, Len(prefix)) = prefix

\* s.find(pat): 0-based offset of the first occurrence of pat in s, or -1
Find(s, pat) ==
  LET hits == {i \in 0..(Len(s) - Len(pat)) : SubSeq(s, i + 1, i + Len(pat)) = pat}
  IN IF hits = {} THEN -1 ELSE CHOOSE i \in hits : \A j \in hits : i <= j

\* s.split(sep, maxsplit): at most maxsplit cuts, at the leftmost occurrences
RECURSIVE SplitOn(_, _, _)
SplitOn(s, sep, maxsplit) ==
  LET at == Find(s, sep)
  IN IF maxsplit = 0 \/ at = -1
     THEN <<s>>
     ELSE <<Slice(s, 0, at)>> \o SplitOn(Slice(s, at + Len(sep), Len(s)), sep, maxsplit - 1)

\* s.split(sep) without a limit on the number of cuts
SplitAll(s, sep) == SplitOn(s, sep, Len(s))

\* s.strip()
strip(s) ==
  LET keep == {i \in 1..Len(s) : ~IsSpace(s[i])}
  IN IF keep = {} THEN <<>>
     ELSE SubSeq(s, CHOOSE i \in keep : \A j \in keep : i <= j,
                    CHOOSE i \in keep : \A j \in keep : i >= j)

\* str(n) for n >= 0
DigitChars == <<"0", "1", "2", "3", "4", "5", "6", "7", "8", "9">>

RECURSIVE str(_)
str(n) == IF n < 10 THEN <<DigitChars[n + 1]>> ELSE str(n \div 10) \o <<DigitChars[(n % 10) + 1]>>

\* dict.get(key, default)
Get(dict, key, default) == IF key \in DOMAIN dict THEN dict[key] ELSE default

(***************************************************************************)
(* extract_frontmatter                                                     *)
(***************************************************************************)
Delimiter == <<"-", "-", "-">>

\* the for loop over the header lines: a later key overwrites an earlier one
RECURSIVE ParseLines(_, _, _)
ParseLines(lines, i, frontmatter) ==
  IF i > Len(lines) THEN frontmatter
  ELSE LET line == lines[i]
       IN IF Find(line, <<":">>) # -1
          THEN LET kv == SplitOn(line, <<":">>, 1)
                   key == strip(kv[1])
                   value == strip(kv[2])
               IN ParseLines(lines, i + 1,
                    [k \in (DOMAIN frontmatter) \cup {key} |->
                       IF k = key THEN value ELSE frontmatter[k]])
          ELSE ParseLines(lines, i + 1, frontmatter)

\* an extraction that accepts a header anywhere in the text
extract_frontmatter_anywhere(content) ==
  IF Find(content, Delimiter) # -1
  THEN LET parts == SplitOn(content, Delimiter, 2)
       IN IF Len(parts) >= 3
          THEN <<ParseLines(SplitAll(strip(parts[2]), <<"\n">>), 1, <<>>), strip(parts[3])>>
          ELSE <<<<>>, content>>
  ELSE <<<<>>, content>>

\* returns <<frontmatter, content>>
extract_frontmatter(content) ==
  IF StartsWith(content, Delimiter)
  THEN LET parts == SplitOn(content, Delimiter, 2)
       IN IF Len(parts) >= 3
          THEN <<ParseLines(SplitAll(strip(parts[2]), <<"\n">>), 1, <<>>), strip(parts[3])>>
          ELSE <<<<>>, content>>
  ELSE <<<<>>, content>>

(***************************************************************************)
(* generate_point_id                                                       *)
(***************************************************************************)
ChunkTag == <<":", "c", "h", "u", "n", "k", "_">>

\* f"{repo}:{path}:chunk_{chunk_index}"
unique_string(path, repo, chunk_index) ==
  repo \o <<":">> \o path \o ChunkTag \o str(chunk_index)

\* hashlib.md5(s).hexdigest(), taken to be collision-free: the digest of a
\* string stands for that string and for no other
md5_hexdigest(s) == [md5 |-> s]

generate_point_id(path, repo, chunk_index) ==
  md5_hexdigest(unique_string(path, repo, chunk_index))

(***************************************************************************)
(* The embedder and the vector index (external collaborators).             *)
(***************************************************************************)
SCROLL_LIMIT == 100      \* limit=100 of the scroll call
PREVIEW_CHARS == 500     \* chunk[:500] and full_chunk[:500]

\* embedding_model.embed([text]): a deterministic function of the text
embed(text_) == [dim |-> 384, of |-> <<Len(text_), Slice(text_, 0, 4)>>]

\* the ids of the records whose payload has this path and this repo
Matching(ix, path, repo) ==
  {id \in DOMAIN ix : ix[id].payload.path = path /\ ix[id].payload.repo = repo}

\* the id sets one scroll page of at most `limit` records can hold
RECURSIVE Pages(_, _)
Pages(ids, limit) ==
  IF Cardinality(ids) <= limit THEN {ids}
  ELSE UNION {Pages(ids \ {x}, limit) : x \in ids}

\* qdrant_client.scroll(scroll_filter, limit): the first page only
scroll(ix, path, repo, limit) == Pages(Matching(ix, path, repo), limit)

\* a delete that removes every record of the documents the ids belong to
delete_documents(ix, point_ids) ==
  LET docs == {<<ix[id].payload.repo, ix[id].payload.path>> : id \in point_ids \cap DOMAIN ix}
  IN [id \in {x \in DOMAIN ix : <<ix[x].payload.repo, ix[x].payload.path>> \notin docs} |->
        ix[id]]

\* qdrant_client.delete(points_selector=PointIdsList(points=point_ids))
delete(ix, point_ids) == [id \in (DOMAIN ix) \ point_ids |-> ix[id]]

\* an insert that keeps a record already stored under the id and files the
\* new one next to it
upsert_append(ix, points) ==
  LET stored(i) == IF points[i].id \in DOMAIN ix
                   THEN [dup |-> points[i].id, n |-> Cardinality(DOMAIN ix) + i]
                   ELSE points[i].id
  IN [id \in (DOMAIN ix) \cup {stored(i) : i \in 1..Len(points)} |->
        IF \E i \in 1..Len(points) : stored(i) = id
        THEN points[CHOOSE i \in 1..Len(points) : stored(i) = id]
        ELSE ix[id]]

\* an upsert that first drops every record of the documents it writes
upsert_replacing(ix, points) ==
  LET ids == {points[i].id : i \in 1..Len(points)}
      docs == {<<points[i].payload.repo, points[i].payload.path>> : i \in 1..Len(points)}
      kept == {id \in DOMAIN ix : <<ix[id].payload.repo, ix[id].payload.path>> \notin docs}
  IN [id \in kept \cup ids |->
        IF id \in ids
        THEN LET p == points[CHOOSE i \in 1..Len(points) : points[i].id = id]
             IN [vector |-> p.vector, payload |-> p.payload]
        ELSE ix[id]]

\* qdrant_client.upsert(points): insert or replace by id, the last point of
\* the batch with a given id wins
upsert(ix, points) ==
  LET ids == {points[i].id : i \in 1..Len(points)}
      last(id) == CHOOSE i \in 1..Len(points) :
                    /\ points[i].id = id
                    /\ \A j \in 1..Len(points) : points[j].id = id => j <= i
  IN [id \in (DOMAIN ix) \cup ids |->
        IF id \in ids THEN [vector |-> points[last(id)].vector,
                            payload |-> points[last(id)].payload]
        ELSE ix[id]]

(***************************************************************************)
(* POST /ingest                                                            *)
(***************************************************************************)
INGEST_API_SECRET == "secret"
NoToken == "None"

\* a token test that stops a missing token only
TokenRejected_missing(x_ingest_token) ==
  x_ingest_token = NoToken \/ x_ingest_token = ""

\* if not x_ingest_token or x_ingest_token != INGEST_API_SECRET
TokenRejected(x_ingest_token) ==
  x_ingest_token = NoToken \/ x_ingest_token = "" \/ x_ingest_token # INGEST_API_SECRET

\* the metadata dict and PointStruct built for chunk idx (0-based)
PointFor(payload, frontmatter, chunks_, idx) ==
  LET chunk == chunks_[idx + 1]
  IN [id |-> generate_point_id(payload.path, payload.repo, idx),
      vector |-> embed(chunk),
      payload |-> [path |-> payload.path,
                   repo |-> payload.repo,
                   commit |-> payload.commit,
                   title |-> Get(frontmatter, <<"t", "i", "t", "l", "e">>, <<>>),
                   description |-> Get(frontmatter,
                       <<"d", "e", "s", "c", "r", "i", "p", "t", "i", "o", "n">>, <<>>),
                   tags |-> Get(frontmatter, <<"t", "a", "g", "s">>, <<>>),
                   chunk_index |-> idx,
                   total_chunks |-> Len(chunks_),
                   content |-> Slice(chunk, 0, PREVIEW_CHARS),
                   full_chunk |-> chunk]]

\* lines 304-330: frontmatter, word count, chunks and the points list after
\* the for loop over enumerate(chunks)
Prepare(payload) ==
  LET fm == extract_frontmatter(payload.content)
      chunks_ == split_into_chunks(fm[2], CHUNK_SIZE, CHUNK_OVERLAP)
  IN [frontmatter |-> fm[1],
      word_count |-> Len(split(fm[2])),
      chunks |-> chunks_,
      points |-> [i \in 1..Len(chunks_) |-> PointFor(payload, fm[1], chunks_, i - 1)]]

(***************************************************************************)
(* Request bodies of POST /ingest.                                         *)
(***************************************************************************)
\* n one-letter words separated by single spaces (kept as a tuple)
WordsText(n) ==
  SubSeq([i \in 1..(2 * n) |->
            IF i % 2 = 0 THEN " " ELSE IF (i \div 2) % 2 = 0 THEN "a" ELSE "b"],
         1, IF n = 0 THEN 0 ELSE 2 * n - 1)

MaxOps == 2              \* requests handled in one behaviour
MaxBigOps == 2           \* the same, in the scenario of the 101-chunk document
MultiChunkWords == 951   \* words of the three-chunk document
BigDocWords == 45051     \* words of the document of more than 100 chunks

\* (repo, path) keys; the first two differ only in where the colon falls
Documents ==
  { <<<<"r">>, <<"p", ":", "q">>>>,
    <<<<"r", ":", "p">>, <<"q">>>>,
    <<<<"r">>, <<"q">>>> }

Commits == {"c1", "c2"}

\* "---\ntitle: T\n---\nx y": a header and a two-word body
SmallDoc ==
  <<"-", "-", "-", "\n", "t", "i", "t", "l", "e", ":", " ", "T", "\n",
    "-", "-", "-", "\n", "x", " ", "y">>

MultiDoc == WordsText(MultiChunkWords)

BigDoc == WordsText(BigDocWords)

Tokens == {INGEST_API_SECRET, NoToken, "wrong"}

\* IngestPayload bodies over the given keys, commits and contents
Payloads(docs, commits, contents) ==
  {[path |-> d[2], repo |-> d[1], commit |-> c, deleted |-> FALSE, content |-> t] :
     d \in docs, c \in commits, t \in contents}
  \cup {[path |-> d[2], repo |-> d[1], commit |-> c, deleted |-> TRUE, content |-> <<>>] :
     d \in docs, c \in commits}

IngestPayloads == Payloads(Documents, Commits, {SmallDoc, MultiDoc})

\* Prepare, tabulated for the payloads of IngestPayloads so that a document
\* is chunked once per run and not once per request
PreparedTable == [p \in {q \in IngestPayloads : ~q.deleted} |-> Prepare(p)]

Prepared(payload) ==
  IF payload \in DOMAIN PreparedTable THEN PreparedTable[payload] ELSE Prepare(payload)

\* n external calls of the same name
Repeat(name, n) == [i \in 1..n |-> name]

\* the deleted=true branch; fault = k > 0 makes the k-th external call raise
DeleteBranch(ix, payload, fault) ==
  IF fault = 1
  THEN {[index |-> ix, calls |-> <<"scroll">>,
         response |-> [status |-> 500, detail |-> "Delete failed"]]}
  ELSE {IF point_ids # {}
        THEN IF fault = 2
             THEN [index |-> ix, calls |-> <<"scroll", "delete">>,
                   response |-> [status |-> 500, detail |-> "Delete failed"]]
             ELSE [index |-> delete(ix, point_ids), calls |-> <<"scroll", "delete">>,
                   response |-> [status |-> 200, action |-> "deleted",
                                 chunks_deleted |-> Cardinality(point_ids)]]
        ELSE [index |-> ix, calls |-> <<"scroll">>,
              response |-> [status |-> 200, action |-> "deleted", chunks_deleted |-> 0]]
        : point_ids \in scroll(ix, payload.path, payload.repo, SCROLL_LIMIT)}

\* a branch that writes each point as soon as it is embedded
UpsertBranch_eager(ix, payload, fault) ==
  LET prepared == Prepared(payload)
      points == prepared.points
      n == Len(points)
      written(k) == [id \in (DOMAIN ix) \cup {points[i].id : i \in 1..k} |->
                       IF \E i \in 1..k : points[i].id = id
                       THEN LET p == points[CHOOSE i \in 1..k : points[i].id = id]
                            IN [vector |-> p.vector, payload |-> p.payload]
                       ELSE ix[id]]
  IN IF fault \in 1..n
     THEN {[index |-> written(fault - 1), calls |-> Repeat("embed", fault),
            response |-> [status |-> 500, detail |-> "Ingestion failed"]]}
     ELSE IF fault = n + 1
     THEN {[index |-> written(n - 1), calls |-> Append(Repeat("embed", n), "upsert"),
            response |-> [status |-> 500, detail |-> "Ingestion failed"]]}
     ELSE {[index |-> written(n), calls |-> Append(Repeat("embed", n), "upsert"),
            response |-> [status |-> 200, action |-> "ingested",
                          path |-> payload.path,
                          title |-> Get(prepared.frontmatter,
                                        <<"t", "i", "t", "l", "e">>, <<"N", "/", "A">>),
                          word_count |-> prepared.word_count,
                          chunks_created |-> n]]}

\* the chunk-and-upsert branch
UpsertBranch(ix, payload, fault) ==
  LET prepared == Prepared(payload)
      points == prepared.points
      n == Len(points)
  IN IF fault \in 1..n
     THEN {[index |-> ix, calls |-> Repeat("embed", fault),
            response |-> [status |-> 500, detail |-> "Ingestion failed"]]}
     ELSE IF fault = n + 1
     THEN {[index |-> ix, calls |-> Append(Repeat("embed", n), "upsert"),
            response |-> [status |-> 500, detail |-> "Ingestion failed"]]}
     ELSE {[index |-> upsert(ix, points), calls |-> Append(Repeat("embed", n), "upsert"),
            response |-> [status |-> 200, action |-> "ingested",
                          path |-> payload.path,
                          title |-> Get(prepared.frontmatter,
                                        <<"t", "i", "t", "l", "e">>, <<"N", "/", "A">>),
                          word_count |-> prepared.word_count,
                          chunks_created |-> n]]}

\* the handler: the set of outcomes [index, calls, response] it can produce
ingest_document(ix, payload, x_ingest_token, fault) ==
  IF TokenRejected(x_ingest_token)
  THEN {[index |-> ix, calls |-> <<>>,
         response |-> [status |-> 401, detail |-> "Invalid token"]]}
  ELSE IF payload.deleted
  THEN DeleteBranch(ix, payload, fault)
  ELSE UpsertBranch(ix, payload, fault)

(***************************************************************************)
(* State.                                                                  *)
(***************************************************************************)
VARIABLES
  text, chunk_size, overlap,   \* the arguments of a running split_into_chunks
  words, start, chunks,        \* its locals
  pc,                          \* its position: "entry", "loop", "done" ("idle": no call)
  index,                       \* the collection: point id -> [vector, payload]
  request,                     \* the request handled last
  response,                    \* its response (status 200, or the HTTPException)
  calls,                       \* the external calls it issued, in order
  before,                      \* the collection when that request arrived
  repeat,                      \* it repeats the request before it, both successful
  results,                     \* what its query_points call returned, if it returned
  ops,                         \* number of requests handled
  groq_client,                 \* TRUE iff GROQ_API_KEY was set at startup
  anthropic_client,            \* TRUE iff ANTHROPIC_API_KEY was set at startup
  id_in,                       \* two argument triples of generate_point_id
  id_out,                      \* the identifiers computed for them
  fm_content,                  \* the argument of an extract_frontmatter call
  fm_result,                   \* what the call returned (<<>>: not yet)
  wiki_env,                    \* TRUE iff every required WIKIJS_/KB_ variable is set
  wiki_pc,                     \* position of start_wiki_setup_process ("idle": no call)
  attempt,                     \* the loop variable of the login loop
  login_success,               \* its flag
  jwt_token,                   \* the token read from the login response, or NoJwt
  wiki_log,                    \* the HTTP requests the flow issued, with their outcomes
  wiki_response,               \* how the flow ended (status 0: it has not)
  race_del,                    \* the deleted=true request of the race
  race_ing,                    \* the deleted=false request of the race
  del_pc,                      \* position of the handler of race_del
  ing_pc,                      \* position of the handler of race_ing
  del_point_ids,               \* point_ids of the deleting handler, after its scan
  ing_points,                  \* points of the ingesting handler, after its loop
  race_log                     \* the index calls of the two handlers, in order

chunkerVars == <<text, chunk_size, overlap, words, start, chunks, pc>>

serviceVars == <<index, request, response, calls, before, repeat, results, ops>>

clientVars == <<groq_client, anthropic_client>>

idVars == <<id_in, id_out>>

fmVars == <<fm_content, fm_result>>

wikiVars == <<wiki_env, wiki_pc, attempt, login_success, jwt_token, wiki_log, wiki_response>>

\* the state of the scenarios that run beside the service
raceVars == <<race_del, race_ing, del_pc, ing_pc, del_point_ids, ing_points, race_log>>

auxVars == <<fmVars, wikiVars, raceVars>>

vars == <<chunkerVars, serviceVars, clientVars, idVars, auxVars>>

\* no split_into_chunks call is being traced
ChunkerIdle ==
  /\ text = <<>>
  /\ chunk_size = CHUNK_SIZE
  /\ overlap = CHUNK_OVERLAP
  /\ words = <<>>
  /\ start = 0
  /\ chunks = <<>>
  /\ pc = "idle"

\* no query_points call has returned in the request
NoResults == [returned |-> FALSE, points |-> <<>>]

\* the service after startup, with an empty collection
ServiceStarted ==
  /\ index = <<>>
  /\ request = [endpoint |-> "none"]
  /\ response = [status |-> 0]
  /\ calls = <<>>
  /\ before = <<>>
  /\ repeat = FALSE
  /\ results = NoResults
  /\ ops = 0

\* both LLM clients configured
ClientsConfigured == groq_client = TRUE /\ anthropic_client = TRUE

\* no generate_point_id call is being traced
IdsIdle == id_in = <<>> /\ id_out = <<>>

\* no extract_frontmatter call is being traced
FrontmatterIdle == fm_content = <<>> /\ fm_result = <<>>

NoJwt == "None"

\* no start_wiki_setup_process call is being traced
WikiIdle ==
  /\ wiki_env = TRUE
  /\ wiki_pc = "idle"
  /\ attempt = 0
  /\ login_success = FALSE
  /\ jwt_token = NoJwt
  /\ wiki_log = <<>>
  /\ wiki_response = [status |-> 0]

\* no pair of concurrent requests is being traced
RaceIdle ==
  /\ race_del = <<>>
  /\ race_ing = <<>>
  /\ del_pc = "idle"
  /\ ing_pc = "idle"
  /\ del_point_ids = {}
  /\ ing_points = <<>>
  /\ race_log = <<>>

AuxIdle == FrontmatterIdle /\ WikiIdle /\ RaceIdle

(***************************************************************************)
(* Inputs of the chunker.                                                  *)
(***************************************************************************)
Alphabet == {"a", "b", " "}

RECURSIVE TextsOfLen(_)
TextsOfLen(n) ==
  IF n = 0 THEN {<<>>}
  ELSE {Append(t, c) : t \in TextsOfLen(n - 1), c \in Alphabet}

SmallTexts == UNION {TextsOfLen(n) : n \in 0..MaxTextLen}

Text1200 == WordsText(1200)

ChunkerInputs ==
  {<<t, cs, ov>> : t \in SmallTexts, cs \in 1..MaxChunkSize, ov \in 0..MaxOverlap}
  \cup {<<Text1200, CHUNK_SIZE, CHUNK_OVERLAP>>}

(***************************************************************************)
(* The chunker, one loop iteration per step.                               *)
(***************************************************************************)
InitChunker ==
  /\ \E in \in ChunkerInputs :
       /\ text = in[1]
       /\ chunk_size = in[2]
       /\ overlap = in[3]
  /\ words = <<>>
  /\ start = 0
  /\ chunks = <<>>
  /\ pc = "entry"
  /\ ServiceStarted
  /\ ClientsConfigured
  /\ IdsIdle
  /\ AuxIdle

\* words = text.split(); if len(words) <= chunk_size: return [text]
SplitEntry ==
  /\ pc = "entry"
  /\ words' = split(text)
  /\ IF FitsOneChunk(words', chunk_size)
     THEN chunks' = <<text>> /\ pc' = "done"
     ELSE chunks' = <<>> /\ pc' = "loop"
  /\ start' = 0
  /\ UNCHANGED <<text, chunk_size, overlap, serviceVars, clientVars, idVars, auxVars>>

\* one iteration of `while start < len(words)`
SplitIterate ==
  /\ pc = "loop"
  /\ Len(chunks) < MaxIterations
  /\ IF start < Len(words)
     THEN LET end_ == WindowEnd(start, chunk_size)
          IN /\ chunks' = Append(chunks, WindowChunk(words, start, end_))
             /\ start' = NextStart(end_, overlap)
             /\ pc' = IF ReachedEnd(end_, words) THEN "done" ELSE "loop"
     ELSE UNCHANGED <<chunks, start>> /\ pc' = "done"
  /\ UNCHANGED <<text, chunk_size, overlap, words, serviceVars, clientVars, idVars, auxVars>>

NextChunker == SplitEntry \/ SplitIterate

SpecChunker == InitChunker /\ [][NextChunker]_vars

(***************************************************************************)
(* POST /search and POST /rag                                              *)
(***************************************************************************)
\* result.score: the cosine similarity, fixed by the two vectors
Similarity(query_embedding, vector) == [cosine |-> <<query_embedding, vector>>]

\* the sequences of n distinct elements of S
RECURSIVE Rankings(_, _)
Rankings(S, n) ==
  IF n = 0 \/ S = {} THEN {<<>>}
  ELSE UNION {{<<x>> \o r : r \in Rankings(S \ {x}, n - 1)} : x \in S}

\* qdrant_client.query_points(query, limit, with_payload=True).points: up to
\* `limit` records in the ranking order of the engine
query_points(ix, query_embedding, limit) ==
  {[i \in 1..Len(r) |-> [id |-> r[i],
                         payload |-> ix[r[i]].payload,
                         score |-> Similarity(query_embedding, ix[r[i]].vector)]] :
     r \in Rankings(DOMAIN ix, Min(limit, Cardinality(DOMAIN ix)))}

\* the SearchResult built for one record
SearchResultOf(result) ==
  [path |-> Get(result.payload, "path", <<>>),
   title |-> Get(result.payload, "title", <<>>),
   content |-> Slice(Get(result.payload, "full_chunk", <<>>), 0, PREVIEW_CHARS),
   score |-> result.score,
   chunk_index |-> Get(result.payload, "chunk_index", 0),
   total_chunks |-> Get(result.payload, "total_chunks", 1)]

\* the handler: the set of outcomes [response, calls, results]
search_documents(ix, req, fault) ==
  IF fault = 1
  THEN {[calls |-> <<"embed">>, results |-> NoResults,
         response |-> [status |-> 500, detail |-> "Search failed"]]}
  ELSE IF fault = 2
  THEN {[calls |-> <<"embed", "query_points">>, results |-> NoResults,
         response |-> [status |-> 500, detail |-> "Search failed"]]}
  ELSE {[calls |-> <<"embed", "query_points">>,
         results |-> [returned |-> TRUE, points |-> res],
         response |-> [status |-> 200,
                       results |-> [i \in 1..Len(res) |-> SearchResultOf(res[i])]]] :
          res \in query_points(ix, embed(req.query), req.limit)}

Untitled == <<"U", "n", "t", "i", "t", "l", "e", "d">>

NoInformationAnswer ==
  "I couldn't find any relevant information to answer your question."

GROQ_MODEL == "llama-3.3-70b-versatile"
CLAUDE_MODEL == "claude-sonnet-4-5-20250929"

\* a provider check that lets an unconfigured provider through
ProviderError_unchecked(llm_provider, groq, claude) ==
  IF llm_provider \notin {"groq", "claude"} THEN 400 ELSE 0

\* lines 378-384: 400 for an unknown provider, 503 for an unconfigured one,
\* 0 when the request may proceed
ProviderError(llm_provider, groq, claude) ==
  IF llm_provider \notin {"groq", "claude"} THEN 400
  ELSE IF llm_provider = "groq" /\ ~groq THEN 503
  ELSE IF llm_provider = "claude" /\ ~claude THEN 503
  ELSE 0

\* a test that never takes the short cut
NothingRetrieved_never(res) == FALSE

\* if not results
NothingRetrieved(res) == res = <<>>

\* f"[Document {idx + 1}: {title}]\n{content}\n"
ContextPart(idx, result) ==
  <<"[", "D", "o", "c", "u", "m", "e", "n", "t", " ">> \o str(idx + 1) \o <<":", " ">>
    \o Get(result.payload, "title", Untitled) \o <<"]", "\n">>
    \o Get(result.payload, "full_chunk", <<>>) \o <<"\n">>

\* the entry of `sources` for one record
SourceOf(result) ==
  [title |-> Get(result.payload, "title", Untitled),
   path |-> Get(result.payload, "path", <<>>),
   score |-> result.score,
   chunk |-> str(Get(result.payload, "chunk_index", 0) + 1) \o <<"/">>
               \o str(Get(result.payload, "total_chunks", 1))]

\* the context_parts list after the for loop over enumerate(results)
ContextParts(res) == [i \in 1..Len(res) |-> ContextPart(i - 1, res[i])]

\* a sources list filled from the last retrieved record to the first
Sources_reversed(res) == [i \in 1..Len(res) |-> SourceOf(res[Len(res) + 1 - i])]

\* the sources list after the for loop over enumerate(results)
Sources(res) == [i \in 1..Len(res) |-> SourceOf(res[i])]

\* "\n".join(parts)
RECURSIVE JoinLines(_)
JoinLines(parts) ==
  IF parts = <<>> THEN <<>>
  ELSE IF Len(parts) = 1 THEN parts[1]
  ELSE parts[1] \o <<"\n">> \o JoinLines(Tail(parts))

\* the external LLM, a function of the model and of what it is sent: the
\* context string placed in the user prompt, and the question
Generate(model, context, query) ==
  [model |-> model, context |-> context, question |-> query]

\* the handler: the set of outcomes [response, calls, results]
rag_query(ix, req, groq, claude, fault) ==
  LET rejected == ProviderError(req.llm_provider, groq, claude)
  IN IF rejected = 400
     THEN {[calls |-> <<>>, results |-> NoResults,
            response |-> [status |-> 400,
                          detail |-> "llm_provider must be 'groq' or 'claude'"]]}
     ELSE IF rejected = 503
     THEN {[calls |-> <<>>, results |-> NoResults,
            response |-> [status |-> 503, detail |-> "not configured"]]}
     ELSE IF fault = 1
     THEN {[calls |-> <<"embed">>, results |-> NoResults,
            response |-> [status |-> 500, detail |-> "RAG failed"]]}
     ELSE IF fault = 2
     THEN {[calls |-> <<"embed", "query_points">>, results |-> NoResults,
            response |-> [status |-> 500, detail |-> "RAG failed"]]}
     ELSE {IF NothingRetrieved(res)
           THEN [calls |-> <<"embed", "query_points">>,
                 results |-> [returned |-> TRUE, points |-> res],
                 response |-> [status |-> 200,
                               answer |-> NoInformationAnswer,
                               sources |-> <<>>,
                               query |-> req.query,
                               llm_provider |-> req.llm_provider]]
           ELSE LET context_parts == ContextParts(res)
                    sources == Sources(res)
                    context == JoinLines(context_parts)
                    llm_configured == IF req.llm_provider = "groq" THEN groq ELSE claude
                    model_used == IF req.llm_provider = "groq" THEN GROQ_MODEL
                                  ELSE CLAUDE_MODEL
                IN IF ~llm_configured
                   THEN [calls |-> <<"embed", "query_points">>,
                         results |-> [returned |-> TRUE, points |-> res],
                         response |-> [status |-> 500, detail |-> "RAG failed"]]
                   ELSE IF fault = 3
                   THEN [calls |-> <<"embed", "query_points", req.llm_provider>>,
                         results |-> [returned |-> TRUE, points |-> res],
                         response |-> [status |-> 500, detail |-> "RAG failed"]]
                   ELSE [calls |-> <<"embed", "query_points", req.llm_provider>>,
                         results |-> [returned |-> TRUE, points |-> res],
                         response |-> [status |-> 200,
                                       answer |-> Generate(model_used, context, req.query),
                                       sources |-> sources,
                                       query |-> req.query,
                                       chunks_used |-> Len(res),
                                       llm_provider |-> req.llm_provider,
                                       model_used |-> model_used]]
           : res \in query_points(ix, embed(req.query), req.limit)}

(***************************************************************************)
(* The /ingest endpoint as an action.                                      *)
(***************************************************************************)
\* the external calls (embed, scroll, delete, upsert) a request can reach
ExternalCalls(payload, x_ingest_token) ==
  IF TokenRejected(x_ingest_token) THEN 0
  ELSE IF payload.deleted THEN 2
  ELSE Len(Prepared(payload).points) + 1

\* one /ingest request, handled to completion; with faulty set, any one of
\* its external calls may raise
Ingest(payloads, tokens, faulty, max_ops) ==
  /\ pc = "idle"
  /\ ops < max_ops
  /\ \E payload \in payloads, x_ingest_token \in tokens :
       \E fault \in 0..(IF faulty THEN ExternalCalls(payload, x_ingest_token) ELSE 0) :
         \E r \in ingest_document(index, payload, x_ingest_token, fault) :
           /\ index' = r.index
           /\ response' = r.response
           /\ calls' = r.calls
           /\ request' = [endpoint |-> "ingest", payload |-> payload,
                          x_ingest_token |-> x_ingest_token]
           /\ repeat' = /\ request = request'
                        /\ response.status = 200
                        /\ r.response.status = 200
  /\ before' = index
  /\ results' = NoResults
  /\ ops' = ops + 1
  /\ UNCHANGED <<chunkerVars, clientVars, idVars, auxVars>>

InitService == ChunkerIdle /\ ServiceStarted /\ ClientsConfigured /\ IdsIdle /\ AuxIdle

NextIngest == Ingest(IngestPayloads, Tokens, TRUE, MaxOps)

SpecIngest == InitService /\ [][NextIngest]_vars

\* the documents of the deletion scenario: one of 101 chunks, one of one chunk
BigPayloads ==
  Payloads({<<<<"r">>, <<"q">>>>}, {"c1"}, {BigDoc})
  \cup Payloads({<<<<"r">>, <<"p", ":", "q">>>>}, {"c1"}, {SmallDoc})

NextDelete == Ingest(BigPayloads, {INGEST_API_SECRET}, FALSE, MaxBigOps)

SpecDelete == InitService /\ [][NextDelete]_vars

(***************************************************************************)
(* The /search and /rag endpoints as actions.                              *)
(***************************************************************************)
Queries == {<<"x", " ", "y">>}

QueryLimits == {1, 3, 5}

Providers == {"groq", "claude", "openai"}

\* one /search request, handled to completion
Search ==
  /\ pc = "idle"
  /\ ops < MaxOps
  /\ \E query \in Queries, limit \in QueryLimits, fault \in 0..2 :
       \E r \in search_documents(index, [query |-> query, limit |-> limit], fault) :
         /\ response' = r.response
         /\ calls' = r.calls
         /\ results' = r.results
         /\ request' = [endpoint |-> "search", query |-> query, limit |-> limit]
  /\ repeat' = FALSE
  /\ before' = index
  /\ ops' = ops + 1
  /\ UNCHANGED <<index, chunkerVars, clientVars, idVars, auxVars>>

\* one /rag request, handled to completion
Rag ==
  /\ pc = "idle"
  /\ ops < MaxOps
  /\ \E query \in Queries, limit \in QueryLimits, llm_provider \in Providers, fault \in 0..3 :
       LET req == [query |-> query, limit |-> limit, llm_provider |-> llm_provider]
       IN \E r \in rag_query(index, req, groq_client, anthropic_client, fault) :
            /\ response' = r.response
            /\ calls' = r.calls
            /\ results' = r.results
            /\ request' = [endpoint |-> "rag", query |-> query, limit |-> limit,
                           llm_provider |-> llm_provider]
  /\ repeat' = FALSE
  /\ before' = index
  /\ ops' = ops + 1
  /\ UNCHANGED <<index, chunkerVars, clientVars, idVars, auxVars>>

\* the documents of the retrieval scenario
QueryPayloads ==
  Payloads({<<<<"r">>, <<"q">>>>}, {"c1"}, {SmallDoc, MultiDoc})
  \cup Payloads({<<<<"r">>, <<"p", ":", "q">>>>}, {"c1"}, {SmallDoc})

\* startup with any combination of configured LLM clients
InitQuery ==
  /\ ChunkerIdle
  /\ ServiceStarted
  /\ groq_client \in BOOLEAN
  /\ anthropic_client \in BOOLEAN
  /\ IdsIdle
  /\ AuxIdle

NextQuery == Ingest(QueryPayloads, {INGEST_API_SECRET}, FALSE, MaxOps) \/ Search \/ Rag

SpecQuery == InitQuery /\ [][NextQuery]_vars

(***************************************************************************)
(* generate_point_id applied to two argument triples.                      *)
(***************************************************************************)
MaxChunkIndex == 10    \* chunk_index ranges over 0..MaxChunkIndex

IdRepos == {<<"r">>, <<"r", ":", "p">>, <<"s">>}

IdPaths == {<<"q">>, <<"p", ":", "q">>, <<"q", "1">>}

IdTriples ==
  {[path |-> p, repo |-> r, chunk_index |-> i] :
     p \in IdPaths, r \in IdRepos, i \in 0..MaxChunkIndex}

InitIds ==
  /\ ChunkerIdle
  /\ ServiceStarted
  /\ ClientsConfigured
  /\ id_in \in IdTriples \X IdTriples
  /\ id_out = <<>>
  /\ AuxIdle

ComputeIds ==
  /\ id_in # <<>>
  /\ id_out = <<>>
  /\ id_out' = <<generate_point_id(id_in[1].path, id_in[1].repo, id_in[1].chunk_index),
                 generate_point_id(id_in[2].path, id_in[2].repo, id_in[2].chunk_index)>>
  /\ UNCHANGED <<id_in, chunkerVars, serviceVars, clientVars, auxVars>>

NextIds == ComputeIds

SpecIds == InitIds /\ [][NextIds]_vars

(***************************************************************************)
(* extract_frontmatter applied to one text.                                *)
(***************************************************************************)
MaxTokens == 5         \* longest enumerated text, counted in tokens

\* the pieces the enumerated texts are built from
FmTokens ==
  {Delimiter, <<"-">>, <<"\n">>, <<":">>, <<" ">>, <<"k">>}

RECURSIVE TokenTexts(_)
TokenTexts(n) ==
  IF n = 0 THEN {<<>>}
  ELSE {t \o tok : t \in TokenTexts(n - 1), tok \in FmTokens}

\* "Title: X\n---\nhello world"
HeaderlessDoc ==
  <<"T", "i", "t", "l", "e", ":", " ", "X", "\n", "-", "-", "-", "\n", "h",
    "e", "l", "l", "o", " ", "w", "o", "r", "l", "d">>

\* "---\ntitle: X\n---\nBody text"
TitledDoc ==
  <<"-", "-", "-", "\n", "t", "i", "t", "l", "e", ":", " ", "X", "\n", "-",
    "-", "-", "\n", "B", "o", "d", "y", " ", "t", "e", "x", "t">>

\* the texts of at most max_tokens tokens, and the two documents above
FrontmatterInputs(max_tokens) ==
  UNION {TokenTexts(n) : n \in 0..max_tokens} \cup {HeaderlessDoc, TitledDoc}

InitFrontmatter ==
  /\ ChunkerIdle
  /\ ServiceStarted
  /\ ClientsConfigured
  /\ IdsIdle
  /\ fm_content \in FrontmatterInputs(MaxTokens)
  /\ fm_result = <<>>
  /\ WikiIdle
  /\ RaceIdle

ExtractFrontmatter ==
  /\ fm_result = <<>>
  /\ fm_result' = extract_frontmatter(fm_content)
  /\ UNCHANGED <<fm_content, chunkerVars, serviceVars, clientVars, idVars, wikiVars, raceVars>>

NextFrontmatter == ExtractFrontmatter

SpecFrontmatter == InitFrontmatter /\ [][NextFrontmatter]_vars

(***************************************************************************)
(* POST /start-process: start_wiki_setup_process, one HTTP request per     *)
(* step.                                                                   *)
(***************************************************************************)
max_retries == 3

\* a loop range with one attempt more
LoginRange_extra(attempt_) == attempt_ \in 1..(max_retries + 1)

\* for attempt in range(1, max_retries + 1)
LoginRange(attempt_) == attempt_ \in 1..max_retries

\* tokens the wiki can hand out
Jwts == {"jwt1", "jwt2"}

\* statuses other than 200 a request can come back with
BadStatuses == {502, 500}

\* what a login request can come to: a successful result with its token, an
\* unsuccessful result, a status other than 200, a RequestException, or a
\* body without the fields the code reads
LoginOutcomes ==
  {[kind |-> "succeeded", jwt |-> t] : t \in Jwts}
  \cup {[kind |-> "unsuccessful"], [kind |-> "network_error"], [kind |-> "malformed"]}
  \cup {[kind |-> "status", status |-> c] : c \in BadStatuses}

\* what any other request of the flow can come to
StepOutcomes ==
  {[kind |-> "succeeded"], [kind |-> "unsuccessful"], [kind |-> "network_error"]}
  \cup {[kind |-> "status", status |-> c] : c \in BadStatuses}

\* the HTTPException a failed finalize, git or guest request ends the flow with
StepFailure(outcome) ==
  IF outcome.kind = "status" THEN [status |-> outcome.status]
  ELSE IF outcome.kind = "network_error" THEN [status |-> 503]
  ELSE [status |-> 500]

InitWiki ==
  /\ ChunkerIdle
  /\ ServiceStarted
  /\ ClientsConfigured
  /\ IdsIdle
  /\ FrontmatterIdle
  /\ RaceIdle
  /\ wiki_env \in BOOLEAN
  /\ wiki_pc = "start"
  /\ attempt = 0
  /\ login_success = FALSE
  /\ jwt_token = NoJwt
  /\ wiki_log = <<>>
  /\ wiki_response = [status |-> 0]

\* the check of the required environment variables
WikiCheckEnv ==
  /\ wiki_pc = "start"
  /\ IF wiki_env
     THEN wiki_pc' = "admin" /\ UNCHANGED wiki_response
     ELSE wiki_pc' = "done" /\ wiki_response' = [status |-> 500]
  /\ UNCHANGED <<wiki_env, attempt, login_success, jwt_token, wiki_log>>
  /\ UNCHANGED <<chunkerVars, serviceVars, clientVars, idVars, fmVars, raceVars>>

\* step 1: POST /finalize; a status other than 200 ends the flow
WikiCreateAdmin ==
  /\ wiki_pc = "admin"
  /\ \E outcome \in StepOutcomes \ {[kind |-> "unsuccessful"]} :
       /\ wiki_log' = Append(wiki_log, [step |-> "finalize", outcome |-> outcome])
       /\ IF outcome.kind = "succeeded"
          THEN wiki_pc' = "login" /\ attempt' = 1 /\ UNCHANGED wiki_response
          ELSE wiki_pc' = "done" /\ wiki_response' = StepFailure(outcome)
                 /\ UNCHANGED attempt
  /\ UNCHANGED <<wiki_env, login_success, jwt_token>>
  /\ UNCHANGED <<chunkerVars, serviceVars, clientVars, idVars, fmVars, raceVars>>

\* one iteration of the login loop
WikiLoginAttempt ==
  /\ wiki_pc = "login"
  /\ LoginRange(attempt)
  /\ \E outcome \in LoginOutcomes :
       /\ wiki_log' = Append(wiki_log, [step |-> "login", outcome |-> outcome])
       /\ IF outcome.kind = "succeeded"
          THEN /\ jwt_token' = outcome.jwt
               /\ login_success' = TRUE
               /\ wiki_pc' = "logged"
               /\ UNCHANGED <<attempt, wiki_response>>
          ELSE IF outcome.kind = "malformed"
          THEN /\ wiki_pc' = "done"
               /\ wiki_response' = [status |-> 500]
               /\ UNCHANGED <<attempt, login_success, jwt_token>>
          ELSE /\ attempt' = attempt + 1
               /\ wiki_pc' = IF LoginRange(attempt + 1) THEN "login" ELSE "logged"
               /\ UNCHANGED <<login_success, jwt_token, wiki_response>>
  /\ UNCHANGED wiki_env
  /\ UNCHANGED <<chunkerVars, serviceVars, clientVars, idVars, fmVars, raceVars>>

\* if not login_success: raise HTTPException(503); else step 3: the git
\* storage request, with the token in its Authorization header
WikiGitConfig ==
  /\ wiki_pc = "logged"
  /\ IF ~login_success
     THEN /\ wiki_pc' = "done"
          /\ wiki_response' = [status |-> 503]
          /\ UNCHANGED wiki_log
     ELSE \E outcome \in StepOutcomes :
            /\ wiki_log' = Append(wiki_log, [step |-> "git_config", outcome |-> outcome,
                                             bearer |-> jwt_token])
            /\ IF outcome.kind = "succeeded"
               THEN wiki_pc' = "guest" /\ UNCHANGED wiki_response
               ELSE wiki_pc' = "done" /\ wiki_response' = StepFailure(outcome)
  /\ UNCHANGED <<wiki_env, attempt, login_success, jwt_token>>
  /\ UNCHANGED <<chunkerVars, serviceVars, clientVars, idVars, fmVars, raceVars>>

\* step 4: the guest permissions request, then the success response
WikiGuestPermissions ==
  /\ wiki_pc = "guest"
  /\ \E outcome \in StepOutcomes :
       /\ wiki_log' = Append(wiki_log, [step |-> "guest_permissions", outcome |-> outcome,
                                        bearer |-> jwt_token])
       /\ wiki_pc' = "done"
       /\ wiki_response' = IF outcome.kind = "succeeded" THEN [status |-> 200]
                           ELSE StepFailure(outcome)
  /\ UNCHANGED <<wiki_env, attempt, login_success, jwt_token>>
  /\ UNCHANGED <<chunkerVars, serviceVars, clientVars, idVars, fmVars, raceVars>>

NextWiki ==
  \/ WikiCheckEnv
  \/ WikiCreateAdmin
  \/ WikiLoginAttempt
  \/ WikiGitConfig
  \/ WikiGuestPermissions

SpecWiki == InitWiki /\ [][NextWiki]_vars

(***************************************************************************)
(* A delete request and an ingest request handled at the same time by two  *)
(* workers over the one collection, one index call per step.               *)
(***************************************************************************)
\* the versions a document can have: one chunk or three
RaceContents == {SmallDoc, MultiDoc}

\* the collections the race can start from: empty, or holding one earlier
\* version of one document
RaceIndexes ==
  {<<>>} \cup {upsert(<<>>, Prepared(p).points) :
                 p \in {q \in Payloads(Documents, {"c1"}, RaceContents) : ~q.deleted}}

InitRace ==
  /\ ChunkerIdle
  /\ ClientsConfigured
  /\ IdsIdle
  /\ FrontmatterIdle
  /\ WikiIdle
  /\ index \in RaceIndexes
  /\ request = [endpoint |-> "none"]
  /\ response = [status |-> 0]
  /\ calls = <<>>
  /\ before = index
  /\ repeat = FALSE
  /\ results = NoResults
  /\ ops = 0
  /\ race_del \in {q \in Payloads(Documents, {"c2"}, RaceContents) : q.deleted}
  /\ race_ing \in {q \in Payloads(Documents, {"c2"}, RaceContents) : ~q.deleted}
  /\ del_pc = "scroll"
  /\ ing_pc = "embed"
  /\ del_point_ids = {}
  /\ ing_points = <<>>
  /\ race_log = <<>>

\* lines 278-285 and the test of line 286: the scan of the deleting handler;
\* nothing scanned means no delete call
RaceScroll ==
  /\ del_pc = "scroll"
  /\ \E page \in scroll(index, race_del.path, race_del.repo, SCROLL_LIMIT) :
       /\ del_point_ids' = page
       /\ del_pc' = IF page # {} THEN "delete" ELSE "done"
  /\ race_log' = Append(race_log, "scroll")
  /\ UNCHANGED <<race_del, race_ing, ing_pc, ing_points>>
  /\ UNCHANGED <<chunkerVars, serviceVars, clientVars, idVars, fmVars, wikiVars>>

\* lines 287-290: the delete call with the scanned ids
RaceDelete ==
  /\ del_pc = "delete"
  /\ index' = delete(index, del_point_ids)
  /\ del_pc' = "done"
  /\ race_log' = Append(race_log, "delete")
  /\ UNCHANGED <<race_del, race_ing, ing_pc, del_point_ids, ing_points>>
  /\ UNCHANGED <<request, response, calls, before, repeat, results, ops>>
  /\ UNCHANGED <<chunkerVars, clientVars, idVars, fmVars, wikiVars>>

\* lines 304-330: chunking and the embedding loop of the ingesting handler
RaceEmbed ==
  /\ ing_pc = "embed"
  /\ ing_points' = Prepared(race_ing).points
  /\ ing_pc' = "upsert"
  /\ UNCHANGED <<race_del, race_ing, del_pc, del_point_ids, race_log>>
  /\ UNCHANGED <<chunkerVars, serviceVars, clientVars, idVars, fmVars, wikiVars>>

\* line 331: the upsert call
RaceUpsert ==
  /\ ing_pc = "upsert"
  /\ index' = upsert(index, ing_points)
  /\ ing_pc' = "done"
  /\ race_log' = Append(race_log, "upsert")
  /\ UNCHANGED <<race_del, race_ing, del_pc, del_point_ids, ing_points>>
  /\ UNCHANGED <<request, response, calls, before, repeat, results, ops>>
  /\ UNCHANGED <<chunkerVars, clientVars, idVars, fmVars, wikiVars>>

NextRace == RaceScroll \/ RaceDelete \/ RaceEmbed \/ RaceUpsert

SpecRace == InitRace /\ [][NextRace]_vars

(***************************************************************************)
(* Properties of split_into_chunks (checked under SpecChunker).            *)
(***************************************************************************)
\* the word sequence of chunk i of the finished list
ChunkWords(i) == split(chunks[i])

\* the distance between consecutive window starts
Stride == chunk_size - overlap

\* the finished call took the window path with overlap < chunk_size
Windowed == pc = "done" /\ Len(words) > chunk_size /\ overlap < chunk_size

RECURSIVE Reassemble(_)
\* chunk 1 followed by every later chunk up to k minus its first `overlap` words
Reassemble(k) ==
  IF k = 0 THEN <<>>
  ELSE IF k = 1 THEN ChunkWords(1)
  ELSE Reassemble(k - 1) \o Slice(ChunkWords(k), overlap, Len(ChunkWords(k)))

\* C5: split_into_chunks terminates for every chunk_size >= 1 and overlap >= 0:
\* the window is guarded so that every iteration that stays in the loop moves
\* the window start forward.
C5_WindowAlwaysAdvances == [][(pc = "loop" /\ pc' = "loop") => start' > start]_vars

\* C6: for more than chunk_size words and 0 <= overlap < chunk_size, the last
\* `overlap` words of each chunk are the first `overlap` words of the next
\* chunk, and chunk 0 followed by every later chunk minus its first `overlap`
\* words is the original word sequence.
C6_OverlapAndReassembly ==
  Windowed =>
    /\ \A i \in 1..(Len(chunks) - 1) :
         Slice(ChunkWords(i), Len(ChunkWords(i)) - overlap, Len(ChunkWords(i)))
           = Slice(ChunkWords(i + 1), 0, overlap)
    /\ Reassemble(Len(chunks)) = words

C6_Witness ==
  /\ Windowed
  /\ Len(chunks) >= 3
  /\ overlap >= 1
  /\ text \in SmallTexts

\* C7: for n > chunk_size words and 0 <= overlap < chunk_size, window i starts
\* at word i*(chunk_size-overlap), every window but the last has chunk_size
\* words, the last window ends at the final word and is not inside the
\* previous window, there are at most ceil(n/(chunk_size-overlap)) chunks, and
\* 1200 words with chunk_size 500 and overlap 50 give three chunks, the last
\* of 300 words.
C7_WindowLayout ==
  Windowed =>
    LET n == Len(words)
        k == Len(chunks)
    IN /\ k >= 1
       /\ \A i \in 1..k :
            chunks[i] = join(Slice(words, (i - 1) * Stride, (i - 1) * Stride + chunk_size))
       /\ \A i \in 1..(k - 1) : Len(ChunkWords(i)) = chunk_size
       /\ (k - 1) * Stride + Len(ChunkWords(k)) = n
       /\ k >= 2 => (k - 1) * Stride + Len(ChunkWords(k)) > (k - 2) * Stride + chunk_size
       /\ (k - 1) * Stride < n
       /\ (text = Text1200 /\ chunk_size = CHUNK_SIZE /\ overlap = CHUNK_OVERLAP)
            => k = 3 /\ Len(ChunkWords(3)) = 300

C7_Witness ==
  /\ Windowed
  /\ text = Text1200
  /\ Len(chunks) = 3
  /\ chunks[3] = join(Slice(words, 900, 1200))

\* C8: a text of at most chunk_size words (the empty text and a text of
\* exactly chunk_size words included) gives exactly one chunk, equal to the
\* input text, whatever the overlap.
C8_ShortTextIsOneChunk ==
  (pc = "done" /\ Len(words) <= chunk_size) => chunks = <<text>>

C8_Witness ==
  /\ pc = "done"
  /\ Len(words) = chunk_size
  /\ text # join(words)
  /\ overlap >= chunk_size
  /\ chunks = <<text>>

(***************************************************************************)
(* Properties of the /ingest handler.                                      *)
(***************************************************************************)
\* the last request was an /ingest request that returned success
IngestSucceeded == request.endpoint = "ingest" /\ response.status = 200

\* the record belongs to the (repo, path) of the payload
SameDocument(rec, payload) ==
  rec.payload.repo = payload.repo /\ rec.payload.path = payload.path

\* C1: a successful ingest request with deleted=true for (repo, path) leaves
\* no record whose payload has that repo and path, however many there were
\* (more than one scan page of 100 included), and leaves every other record
\* in place and unchanged (checked under SpecDelete).
C1_DeleteRemovesAllMatching ==
  (IngestSucceeded /\ request.payload.deleted) =>
    /\ Matching(index, request.payload.path, request.payload.repo) = {}
    /\ DOMAIN index \subseteq DOMAIN before
    /\ \A id \in DOMAIN before :
         ~SameDocument(before[id], request.payload)
           => (id \in DOMAIN index /\ index[id] = before[id])

\* C2: the same non-delete ingest request issued twice in a row, both
\* successful, leaves the collection exactly as the first one left it: the
\* same ids with the same payloads and vectors (checked under SpecIngest).
C2_ReingestIsIdempotent ==
  (request.endpoint = "ingest" /\ repeat /\ ~request.payload.deleted) => index = before

C2_Witness ==
  /\ request.endpoint = "ingest"
  /\ repeat
  /\ ~request.payload.deleted
  /\ request.payload.content = MultiDoc
  /\ Cardinality(DOMAIN index) = 3
  /\ index = before

\* C3: right after a successful non-delete ingest of (repo, path, commit) the
\* records carrying that (repo, path, commit) have chunk_index values that
\* are exactly 0..total-1, each once, where total is the total_chunks of
\* every one of them and the number of chunks produced (checked under
\* SpecIngest).
C3_ChunkIndicesContiguous ==
  (IngestSucceeded /\ ~request.payload.deleted) =>
    LET version == {id \in DOMAIN index :
                      /\ SameDocument(index[id], request.payload)
                      /\ index[id].payload.commit = request.payload.commit}
        total == response.chunks_created
    IN /\ \A id \in version : index[id].payload.total_chunks = total
       /\ {index[id].payload.chunk_index : id \in version} = 0..(total - 1)
       /\ Cardinality(version) = total

(***************************************************************************)
(* Properties of generate_point_id (checked under SpecIds).                *)
(***************************************************************************)
\* C4: generate_point_id is a function of (repo, path, chunk_index) that
\* gives equal identifiers for equal triples and different identifiers for
\* any two triples that differ in repo, path or chunk_index.
C4_DistinctTriplesDistinctIds ==
  id_out # <<>> => (id_in[1] = id_in[2] <=> id_out[1] = id_out[2])

(***************************************************************************)
(* Properties of the /rag and /search handlers (checked under SpecQuery).  *)
(***************************************************************************)
\* the provider named by the last /rag request is unknown or has no client
ProviderUnusable ==
  \/ request.llm_provider \notin {"groq", "claude"}
  \/ request.llm_provider = "groq" /\ ~groq_client
  \/ request.llm_provider = "claude" /\ ~anthropic_client

\* C9: a /rag request naming an unrecognized or an unconfigured provider is
\* rejected with a request error before any retrieval work: it issues no
\* embedding call, no index query and no LLM call, and no other provider is
\* used in its place.
C9_BadProviderRejectedFirst ==
  (request.endpoint = "rag" /\ ProviderUnusable) =>
    /\ calls = <<>>
    /\ ~results.returned
    /\ response.status \in {400, 503}

C9_Witness ==
  /\ request.endpoint = "rag"
  /\ request.llm_provider = "claude"
  /\ ~anthropic_client
  /\ groq_client
  /\ index # <<>>
  /\ response.status = 503
  /\ calls = <<>>

\* an LLM call was issued by the last request
LlmCalled == \E i \in 1..Len(calls) : calls[i] \in {"groq", "claude"}

\* C10: when the index query of a /rag request returns no chunk, the request
\* succeeds with the fixed "no relevant information" answer and no sources,
\* and issues no LLM call; when the index query of a /search request returns
\* no record, the request succeeds with an empty list.
C10_EmptyRetrieval ==
  /\ (request.endpoint = "rag" /\ results.returned /\ results.points = <<>>) =>
       /\ ~LlmCalled
       /\ response.status = 200
       /\ response.sources = <<>>
       /\ response.answer = NoInformationAnswer
  /\ (request.endpoint = "search" /\ results.returned /\ results.points = <<>>) =>
       /\ response.status = 200
       /\ response.results = <<>>

C10_Witness ==
  /\ request.endpoint = "rag"
  /\ results.returned
  /\ results.points = <<>>
  /\ calls = <<"embed", "query_points">>
  /\ response.status = 200
  /\ response.answer = NoInformationAnswer

\* the fields of the RAG response shape
RagFields == {"answer", "sources", "query", "chunks_used", "llm_provider", "model_used"}

\* C11: every successful /rag response, the zero-chunk fallback included,
\* carries the six fields answer, sources, query, chunks_used, llm_provider
\* and model_used, and chunks_used is the number of retrieved chunks and the
\* length of sources.
C11_RagResponseComplete ==
  (request.endpoint = "rag" /\ response.status = 200) =>
    /\ RagFields \subseteq DOMAIN response
    /\ response.chunks_used = Len(results.points)
    /\ response.chunks_used = Len(response.sources)

\* the block of the context string for the i-th retrieved record (1-based)
DocumentBlock(i, point) ==
  <<"[", "D", "o", "c", "u", "m", "e", "n", "t", " ">> \o str(i) \o <<":", " ">>
    \o point.payload.title \o <<"]", "\n">> \o point.payload.full_chunk \o <<"\n">>

RECURSIVE BlocksFrom(_)
\* the blocks of records i.. of the query result, separated by line breaks
BlocksFrom(i) ==
  IF i > Len(results.points) THEN <<>>
  ELSE IF i = Len(results.points) THEN DocumentBlock(i, results.points[i])
  ELSE DocumentBlock(i, results.points[i]) \o <<"\n">> \o BlocksFrom(i + 1)

\* C12: search and RAG neither reorder, drop nor duplicate what the index
\* query returned: the i-th search result, the i-th RAG source and the i-th
\* "[Document i: <title>]" context block belong to the i-th record of the
\* query result, so the output has the length of the query result (at most
\* limit) and the order of the index's ranking.
C12_RankingOrderKept ==
  /\ (request.endpoint = "search" /\ response.status = 200) =>
       /\ results.returned
       /\ Len(response.results) = Len(results.points)
       /\ Len(response.results) <= request.limit
       /\ \A i \in 1..Len(results.points) :
            /\ response.results[i].path = results.points[i].payload.path
            /\ response.results[i].title = results.points[i].payload.title
            /\ response.results[i].score = results.points[i].score
            /\ response.results[i].chunk_index = results.points[i].payload.chunk_index
            /\ response.results[i].total_chunks = results.points[i].payload.total_chunks
            /\ response.results[i].content
                 = Slice(results.points[i].payload.full_chunk, 0, PREVIEW_CHARS)
  /\ (request.endpoint = "rag" /\ response.status = 200) =>
       /\ results.returned
       /\ Len(response.sources) = Len(results.points)
       /\ Len(response.sources) <= request.limit
       /\ \A i \in 1..Len(results.points) :
            /\ response.sources[i].path = results.points[i].payload.path
            /\ response.sources[i].title = results.points[i].payload.title
            /\ response.sources[i].score = results.points[i].score
            /\ response.sources[i].chunk
                 = str(results.points[i].payload.chunk_index + 1) \o <<"/">>
                     \o str(results.points[i].payload.total_chunks)
       /\ results.points # <<>> => response.answer.context = BlocksFrom(1)

\* a RAG answer over two or more records that the index ranked against their
\* chunk order
C12_Witness ==
  /\ request.endpoint = "rag"
  /\ response.status = 200
  /\ Len(results.points) >= 2
  /\ results.points[1].payload.chunk_index > results.points[2].payload.chunk_index
  /\ response.sources[1].chunk = <<"3", "/", "3">>

(***************************************************************************)
(* Failure and frame properties of the /ingest handler (SpecIngest).       *)
(***************************************************************************)
\* C13: an ingest request, deleting or upserting, whose token is missing or
\* is not the configured secret is rejected at once without side effects: the
\* records of the index are unchanged and no embedding, scan, delete or
\* upsert call is issued.
C13_BadTokenNoSideEffects ==
  (request.endpoint = "ingest" /\ request.x_ingest_token # INGEST_API_SECRET) =>
    /\ response.status = 401
    /\ calls = <<>>
    /\ index = before

\* a delete of a stored document arriving with a wrong token
C13_Witness ==
  /\ request.endpoint = "ingest"
  /\ request.x_ingest_token = "wrong"
  /\ request.payload.deleted
  /\ Matching(before, request.payload.path, request.payload.repo) # {}
  /\ response.status = 401
  /\ index = before

\* C14: a non-delete ingest request that fails, at the embedding of any one
\* of its chunks or at the upsert call, writes no partial chunk set: the
\* index holds exactly the records it held before the request.
C14_FailedIngestWritesNothing ==
  (request.endpoint = "ingest" /\ ~request.payload.deleted /\ response.status = 500) =>
    index = before

\* the embedding of the second of three chunks fails on a non-empty index
C14_Witness ==
  /\ request.endpoint = "ingest"
  /\ ~request.payload.deleted
  /\ request.payload.content = MultiDoc
  /\ response.status = 500
  /\ calls = <<"embed", "embed">>
  /\ before # <<>>
  /\ index = before

\* the records the index held for the document of the last request at chunk
\* positions the new version does not have
Superseded ==
  {id \in DOMAIN before :
     /\ SameDocument(before[id], request.payload)
     /\ before[id].payload.chunk_index >= response.chunks_created}

\* C15: re-ingestion does not remove superseded chunks: when (repo, path) had
\* m chunks and is ingested again with n < m chunks, the records of chunk
\* indices n..m-1 stay in the index under their ids with their payload (old
\* commit, old total_chunks) unchanged, and indices 0..n-1 hold the new
\* version.
C15_SupersededChunksRemain ==
  (IngestSucceeded /\ ~request.payload.deleted) =>
    /\ \A id \in Superseded : id \in DOMAIN index /\ index[id] = before[id]
    /\ \A i \in 0..(response.chunks_created - 1) :
         LET id == generate_point_id(request.payload.path, request.payload.repo, i)
         IN /\ id \in DOMAIN index
            /\ index[id].payload.commit = request.payload.commit
            /\ index[id].payload.total_chunks = response.chunks_created
            /\ index[id].payload.chunk_index = i
            /\ index[id].payload.path = request.payload.path
            /\ index[id].payload.repo = request.payload.repo

\* three chunks of commit c1, then one chunk of commit c2
C15_Witness ==
  /\ IngestSucceeded
  /\ ~request.payload.deleted
  /\ request.payload.commit = "c2"
  /\ response.chunks_created = 1
  /\ Cardinality(Superseded) = 2
  /\ \A id \in Superseded :
       /\ index[id].payload.commit = "c1"
       /\ index[id].payload.total_chunks = 3

(***************************************************************************)
(* Properties of extract_frontmatter (checked under SpecFrontmatter).      *)
(***************************************************************************)
RECURSIVE TrimLeft(_)
TrimLeft(s) == IF s # <<>> /\ s[1] \in Whitespace THEN TrimLeft(Tail(s)) ELSE s

RECURSIVE TrimRight(_)
TrimRight(s) ==
  IF s # <<>> /\ s[Len(s)] \in Whitespace THEN TrimRight(SubSeq(s, 1, Len(s) - 1)) ELSE s

Trimmed(s) == TrimRight(TrimLeft(s))

\* the delimiter stands at position i of s (1-based)
DelimiterAt(s, i) ==
  i + 2 <= Len(s) /\ s[i] = "-" /\ s[i + 1] = "-" /\ s[i + 2] = "-"

\* s begins with the delimiter and the delimiter occurs a second time
HasHeader(s) == DelimiterAt(s, 1) /\ \E j \in 4..Len(s) : DelimiterAt(s, j)

SecondDelimiter(s) ==
  CHOOSE j \in 4..Len(s) :
    DelimiterAt(s, j) /\ \A h \in 4..(j - 1) : ~DelimiterAt(s, h)

\* the text between the first two delimiters, and the text after the second
HeaderRegion(s) == SubSeq(s, 4, SecondDelimiter(s) - 1)

AfterHeader(s) == SubSeq(s, SecondDelimiter(s) + 3, Len(s))

\* the lines of r as [at, line]: `at` is where the line begins in r
LinesOf(r) ==
  LET begins == {1} \cup {i + 1 : i \in {h \in 1..Len(r) : r[h] = "\n"}}
      stop(a) == IF \E i \in a..Len(r) : r[i] = "\n"
                 THEN (CHOOSE i \in a..Len(r) :
                         r[i] = "\n" /\ \A h \in a..(i - 1) : r[h] # "\n") - 1
                 ELSE Len(r)
  IN {[at |-> a, line |-> SubSeq(r, a, stop(a))] : a \in begins}

HasColon(line) == \E i \in 1..Len(line) : line[i] = ":"

FirstColon(line) ==
  CHOOSE i \in 1..Len(line) : line[i] = ":" /\ \A h \in 1..(i - 1) : line[h] # ":"

KeyOf(line) == Trimmed(SubSeq(line, 1, FirstColon(line) - 1))

ValueOf(line) == Trimmed(SubSeq(line, FirstColon(line) + 1, Len(line)))

\* the mapping of the `key: value` lines of r, a repeated key keeping its
\* last line
MappingOf(r) ==
  LET assignments == {l \in LinesOf(r) : HasColon(l.line)}
      last(k) == CHOOSE l \in assignments :
                   /\ KeyOf(l.line) = k
                   /\ \A m \in assignments : KeyOf(m.line) = k => m.at <= l.at
  IN [k \in {KeyOf(l.line) : l \in assignments} |-> ValueOf(last(k).line)]

\* C16 as stated: extract_frontmatter never fails and gives ({}, the text
\* unchanged) when the text does not begin with the `---` delimiter or the
\* delimiter occurs fewer than two times, and otherwise the mapping of the
\* `key: value` lines between the first two delimiters (split at the first
\* colon, both sides trimmed, lines without a colon skipped) together with
\* the text after the second delimiter as the body.
C16_FrontmatterReference ==
  fm_result # <<>> =>
    fm_result = IF HasHeader(fm_content)
                THEN <<MappingOf(HeaderRegion(fm_content)), AfterHeader(fm_content)>>
                ELSE <<<<>>, fm_content>>

\* C16 as amended: the same, with the body being the text after the second
\* delimiter without its leading and trailing whitespace; "Title: X\n---\n
\* hello world" gives ({}, the input) and "---\ntitle: X\n---\nBody text"
\* gives ({"title": "X"}, "Body text").
C16_FrontmatterReferenceTrimmedBody ==
  fm_result # <<>> =>
    /\ fm_result = IF HasHeader(fm_content)
                   THEN <<MappingOf(HeaderRegion(fm_content)),
                          Trimmed(AfterHeader(fm_content))>>
                   ELSE <<<<>>, fm_content>>
    /\ fm_content = HeaderlessDoc => fm_result = <<<<>>, HeaderlessDoc>>
    /\ fm_content = TitledDoc =>
         fm_result = <<(<<"t", "i", "t", "l", "e">> :> <<"X">>),
                       <<"B", "o", "d", "y", " ", "t", "e", "x", "t">>>>

C16_Witness ==
  /\ fm_content = TitledDoc
  /\ fm_result # <<>>
  /\ DOMAIN fm_result[1] = {<<"t", "i", "t", "l", "e">>}
  /\ fm_result[2] = <<"B", "o", "d", "y", " ", "t", "e", "x", "t">>

(***************************************************************************)
(* Properties of start_wiki_setup_process (checked under SpecWiki).        *)
(***************************************************************************)
\* the positions in the log of the requests of one step
RequestsOf(step) == {i \in 1..Len(wiki_log) : wiki_log[i].step = step}

LoginSucceededAt(i) ==
  wiki_log[i].step = "login" /\ wiki_log[i].outcome.kind = "succeeded"

\* the positions of the git configuration and guest permission requests
LaterSteps == RequestsOf("git_config") \cup RequestsOf("guest_permissions")

\* C17: in the wiki setup flow login is attempted at most 3 times, no attempt
\* follows a successful one, the git configuration and guest permission
\* requests are issued only after a login succeeded and its JWT was obtained,
\* and when all 3 attempts fail (bad status, unsuccessful result or network
\* error) the flow ends with a 503 failure and neither later step is issued.
C17_LoginBoundedAndOrdered ==
  /\ Cardinality(RequestsOf("login")) <= 3
  /\ \A i \in RequestsOf("login") : \A j \in RequestsOf("login") :
       i < j => ~LoginSucceededAt(i)
  /\ \A j \in LaterSteps :
       \E i \in 1..(j - 1) :
         /\ LoginSucceededAt(i)
         /\ wiki_log[i].outcome.jwt \in Jwts
         /\ wiki_log[j].bearer = wiki_log[i].outcome.jwt
  /\ (Cardinality(RequestsOf("login")) = 3
        /\ \A i \in RequestsOf("login") :
             wiki_log[i].outcome.kind \in {"status", "unsuccessful", "network_error"}) =>
       /\ LaterSteps = {}
       /\ wiki_pc \in {"logged", "done"}
       /\ wiki_pc = "done" => wiki_response.status = 503

\* two failed attempts, a successful third one, then both later steps
C17_Witness ==
  /\ wiki_pc = "done"
  /\ wiki_response.status = 200
  /\ Cardinality(RequestsOf("login")) = 3
  /\ RequestsOf("git_config") # {}
  /\ RequestsOf("guest_permissions") # {}

(***************************************************************************)
(* Isolation of documents (checked under SpecIngest).                      *)
(***************************************************************************)
\* C18: a non-delete ingest of one document never alters the records of
\* another: every record the index held whose payload carries a different
\* (repo, path) is still there afterwards with the same id, payload and
\* vector.
C18_OtherDocumentsUntouched ==
  (request.endpoint = "ingest" /\ ~request.payload.deleted) =>
    \A id \in DOMAIN before :
      ~SameDocument(before[id], request.payload)
        => (id \in DOMAIN index /\ index[id] = before[id])

(***************************************************************************)
(* A delete racing an ingest of the same document (checked under SpecRace).*)
(***************************************************************************)
\* both requests are for the same (repo, path), both have completed, and the
\* upsert took place after the scan and before the delete call
UpsertBetweenScanAndDelete ==
  /\ race_del.repo = race_ing.repo
  /\ race_del.path = race_ing.path
  /\ del_pc = "done"
  /\ ing_pc = "done"
  /\ race_log = <<"scroll", "upsert", "delete">>

\* the record the ingesting handler wrote for points[i] is in the index
StillStored(i) ==
  /\ ing_points[i].id \in DOMAIN index
  /\ index[ing_points[i].id] = [vector |-> ing_points[i].vector,
                                payload |-> ing_points[i].payload]

\* C19 as stated: when a delete and a non-delete ingest of the same
\* (repo, path) run concurrently and the upsert takes place after the
\* delete's scan and before its removal call, the records written by that
\* upsert are still in the index once both requests have completed.
C19_UpsertSurvivesRacingDelete ==
  UpsertBetweenScanAndDelete => \A i \in 1..Len(ing_points) : StillStored(i)

\* C19 as amended: in those interleavings the delete removes exactly the ids
\* its scan returned: a record the upsert wrote under an id the scan did not
\* return is still in the index once both requests have completed, and one
\* written under an id the scan returned (a chunk position the document
\* already had) is removed with it.
C19_DeleteRemovesScannedIdsOnly ==
  UpsertBetweenScanAndDelete =>
    \A i \in 1..Len(ing_points) :
      IF ing_points[i].id \in del_point_ids
      THEN ing_points[i].id \notin DOMAIN index
      ELSE StillStored(i)

\* one stored chunk scanned, three chunks upserted, the scanned id deleted:
\* chunks 1 and 2 of the new version remain, chunk 0 is gone
C19_Witness ==
  /\ UpsertBetweenScanAndDelete
  /\ Cardinality(del_point_ids) = 1
  /\ Len(ing_points) = 3
  /\ ing_points[1].id \in del_point_ids
  /\ ing_points[1].id \notin DOMAIN index
  /\ StillStored(2)
  /\ StillStored(3)

====
